---------------------------- MODULE Spec2Model ----------------------------
(***************************************************************************)
(* isdhcplib/type_rfc.py: the RFC 3046 (option 82) decoder with its two    *)
(* accessors, and the RFC 3442 classless static route encoder.             *)
(*                                                                         *)
(* Byte arrays are sequences of naturals in 0..255.  Python's 0-based      *)
(* half-open slices are modelled by Slice / SliceFrom, which clip at the   *)
(* end of the sequence exactly as Python does.  A Python exception is a    *)
(* result record with ok = FALSE (for the parser) or a result tagged       *)
(* "ValueError" (for the accessors).                                       *)
(***************************************************************************)
EXTENDS Integers, Sequences, FiniteSets, TLC

VARIABLES
    pc,                 \* "new", "ready" (constructor returned), "failed" (it raised)
    data,               \* the constructor's argument
    raw,                \* self.raw
    suboptions,         \* self.suboptions
    agent_circuit_id,   \* self.agent_circuit_id
    agent_remote_id,    \* self.agent_remote_id
    op,                 \* the member called last
    ret,                \* what that call returned (or raised)
    first,              \* what AgentRemoteId / AgentCircuitId gave when first called
    rpc,                \* RFC3442: "new", "built", "listed"
    routes,             \* RFC3442: the pairs routes.iteritems() yields, in that order
    _routes,            \* RFC3442: self._routes
    result              \* RFC3442: what ListClasslessRoutes returned

vars == <<pc, data, raw, suboptions, agent_circuit_id, agent_remote_id, op, ret,
          first, rpc, routes, _routes, result>>

optvars == <<pc, data, raw, suboptions, agent_circuit_id, agent_remote_id, op, ret, first>>

routevars == <<rpc, routes, _routes, result>>

---------------------------------------------------------------------------
(* Bounds of the model                                                     *)

\* longest exhaustively enumerated raw buffer
MaxLen == 6

\* most routes handed to one RFC3442 object
MaxRoutes == 2

---------------------------------------------------------------------------
(* Python sequence primitives                                              *)

Min(a, b) == IF a < b THEN a ELSE b

\* s[a:b] for 0 <= a <= b
Slice(s, a, b) == SubSeq(s, a + 1, Min(b, Len(s)))

\* s[a:] for 0 <= a
SliceFrom(s, a) == SubSeq(s, a + 1, Len(s))

\* d.update(e): the entries of e replace those of d
DictUpdateFirstWins(d, e) ==
    [k \in DOMAIN d \cup DOMAIN e |-> IF k \in DOMAIN d THEN d[k] ELSE e[k]]

DictUpdate(d, e) ==
    [k \in DOMAIN d \cup DOMAIN e |-> IF k \in DOMAIN e THEN e[k] ELSE d[k]]

\* {k: v}
DictOne(k, v) == [x \in {k} |-> v]

\* an attribute the constructor has not assigned
Unset == <<>>

---------------------------------------------------------------------------
(* RFC3046._parseSuboption                                                 *)

\* the raise of line 55
TooShort(d) == Len(d) < 2

\* the raise of line 63
LengthMismatchNever(suboption_value, suboption_len) == FALSE

LengthMismatch(suboption_value, suboption_len) == Len(suboption_value) # suboption_len

\* the test of line 70
MoreFollowsOffByOne(d, suboption_len) == Len(d) >= suboption_len + 2

MoreFollows(d, suboption_len) == Len(d) > suboption_len + 2

Raised == [ok |-> FALSE, dict |-> Unset]

RECURSIVE _parseSuboption(_)
_parseSuboption(d) ==
    IF TooShort(d) THEN Raised
    ELSE LET suboption_id    == d[1]
             suboption_len   == d[2]
             suboption_value == Slice(d, 2, 2 + suboption_len)
         IN  IF LengthMismatch(suboption_value, suboption_len) THEN Raised
             ELSE LET suboption == DictOne(suboption_id, suboption_value)
                  IN  IF MoreFollows(d, suboption_len)
                      THEN LET rest == _parseSuboption(SliceFrom(d, 2 + suboption_len))
                           IN  IF rest.ok
                               THEN [ok |-> TRUE, dict |-> DictUpdate(suboption, rest.dict)]
                               ELSE Raised
                      ELSE [ok |-> TRUE, dict |-> suboption]

---------------------------------------------------------------------------
(* RFC3046._decodeSuboptionAttr                                            *)

AttrValueStrict(suboption_value, suboption_attr_len) ==
    IF Len(suboption_value) >= 2 + suboption_attr_len
    THEN Slice(suboption_value, 2, 2 + suboption_attr_len)
    ELSE <<>>

AttrValue(suboption_value, suboption_attr_len) ==
    Slice(suboption_value, 2, 2 + suboption_attr_len)

RECURSIVE _decodeSuboptionAttr(_)
_decodeSuboptionAttr(suboption_value) ==
    IF Len(suboption_value) < 2 THEN <<>>
    ELSE LET suboption_attr_type == suboption_value[1]
             suboption_attr_len  == suboption_value[2]
             suboption_attr == <<  <<suboption_attr_type,
                                     AttrValue(suboption_value, suboption_attr_len)>>  >>
         IN  IF Len(suboption_value) > suboption_attr_len + 2
             THEN suboption_attr \o
                  _decodeSuboptionAttr(SliceFrom(suboption_value, 2 + suboption_attr_len))
             ELSE suboption_attr

---------------------------------------------------------------------------
(* RFC3046.__init__                                                        *)

\* lines 31-35: the attribute list cached for a well-known suboption id
CachedAttrs(subopts, suboption_id) ==
    IF suboption_id \in DOMAIN subopts
    THEN _decodeSuboptionAttr(subopts[suboption_id])
    ELSE <<>>

---------------------------------------------------------------------------
(* Results of the members: <<tag, payload>>                                *)

RetNone == <<"None", <<>> >>

RetValue(v) == <<"value", v>>

RetValueError == <<"ValueError", <<>> >>

---------------------------------------------------------------------------
(* RFC3046.AgentRemoteId                                                   *)

\* the dash of line 111
DASH == 45

IsSpace(c) == c \in {9, 10, 11, 12, 13, 32}

\* the value of one hexadecimal digit character, -1 for any other character
HexDigit(c) ==
    IF c >= 48 /\ c <= 57 THEN c - 48
    ELSE IF c >= 65 /\ c <= 70 THEN c - 55
    ELSE IF c >= 97 /\ c <= 102 THEN c - 87
    ELSE -1

\* int(a + b, 16) for two characters, neither of them a dash: -1 stands for
\* ValueError.  Besides two hexadecimal digits Python accepts one digit with
\* white space before or after it, or with a plus sign (43) before it.
IntBase16(a, b) ==
    IF HexDigit(a) >= 0 /\ HexDigit(b) >= 0 THEN 16 * HexDigit(a) + HexDigit(b)
    ELSE IF HexDigit(a) >= 0 /\ IsSpace(b) THEN HexDigit(a)
    ELSE IF (IsSpace(a) \/ a = 43) /\ HexDigit(b) >= 0 THEN HexDigit(b)
    ELSE -1

\* lines 111-112
DashHexDecode(remote_id) ==
    LET chars == SelectSeq(remote_id, LAMBDA i : i # DASH)
        pairs == [k \in 1..(Len(chars) \div 2) |->
                     IntBase16(chars[2 * k - 1], chars[2 * k])]
    IN  IF \E k \in DOMAIN pairs : pairs[k] < 0
        THEN RetValueError
        ELSE RetValue(pairs)

\* lines 105 and 123: the accessors consult the first attribute
ConsultedLast(attrs) == attrs[Len(attrs)]

Consulted(attrs) == attrs[1]

AgentRemoteId(attrs) ==
    IF Len(attrs) = 0 THEN RetNone
    ELSE LET remote_id_type == Consulted(attrs)[1]
             remote_id      == Consulted(attrs)[2]
         IN  IF remote_id_type = 0 /\ Len(remote_id) = 6 THEN RetValue(remote_id)
             ELSE IF remote_id_type = 1 /\ Len(remote_id) = 17
                  THEN DashHexDecode(remote_id)
                  ELSE RetNone

\* self.agent_remote_id after a call: lines 111-112 rebind the local name
\* remote_id only, the cached list is not assigned
AgentRemoteIdStoresBack(attrs) ==
    IF Len(attrs) > 0 /\ attrs[1][1] = 1 /\ Len(attrs[1][2]) = 17
    THEN [attrs EXCEPT ![1] = <<1, SelectSeq(attrs[1][2], LAMBDA i : i # DASH)>>]
    ELSE attrs

AgentRemoteIdKeeps(attrs) == attrs

---------------------------------------------------------------------------
(* RFC3046.AgentCircuitId                                                  *)

\* (a << 8) + b
Vlan(a, b) == (a * 256) + b

\* the test of line 125
IsDlinkCircuitIdNoLength(attr_type, attr_value) == attr_type = 0 /\ Len(attr_value) >= 4

IsDlinkCircuitId(attr_type, attr_value) == attr_type = 0 /\ Len(attr_value) = 4

AgentCircuitId(attrs) ==
    IF Len(attrs) = 0 THEN RetNone
    ELSE LET attr_type  == Consulted(attrs)[1]
             attr_value == Consulted(attrs)[2]
         IN  IF IsDlinkCircuitId(attr_type, attr_value)
             THEN LET vlan   == Vlan(attr_value[1], attr_value[2])
                      module == attr_value[3]
                      port   == attr_value[4]
                  IN  RetValue(<<vlan, module, port>>)
             ELSE RetNone

---------------------------------------------------------------------------
(* The raw buffers handed to the constructor                               *)

\* the byte values of the exhaustively enumerated buffers
ShortBytes == {0, 1, 2, 3}

ShortBuffers == UNION {[1..n -> ShortBytes] : n \in 0..MaxLen}

\* one well-formed TLV: a suboption, or an attribute inside a suboption
Tlv(t, v) == <<t, Len(v)>> \o v

\* a TLV whose length byte declares one byte more than it carries
TlvShort(t, v) == <<t, Len(v) + 1>> \o v

Rep(n, b) == [i \in 1..n |-> b]

\* the characters of the dash-hex Remote ID values: 0 F a G space + -
HexChars == {48, 70, 97, 71, 32, 43, 45}

\* 17 bytes: six two-character groups with a separator between them
DashHex(a, b, sep) == <<a, b, sep, a, b, sep, a, b, sep, a, b, sep, a, b, sep, a, b>>

\* "AA-BB-CC-DD-EE-FF"
ExampleDashHex == <<65, 65, 45, 66, 66, 45, 67, 67, 45, 68, 68, 45, 69, 69, 45, 70, 70>>

CircuitCore ==
    {Tlv(0, <<1, 2, 3, 4>>), Tlv(0, <<255, 255, 255, 255>>), TlvShort(0, <<1, 2, 3>>),
     Tlv(1, <<1, 2, 3, 4>>), <<>>}

CircuitValues ==
    CircuitCore
    \cup {Tlv(0, <<a, b, c, d>>) : a \in {0, 1, 255}, b \in {0, 2, 255},
                                  c \in {0, 3}, d \in {4, 255}}
    \cup {Tlv(0, Rep(n, 7)) : n \in {0, 3, 5}}
    \cup {TlvShort(0, Rep(n, 7)) : n \in {4, 5}}
    \cup {Tlv(t, <<1, 2, 3, 4>>) : t \in {2, 255}}
    \cup {Tlv(0, <<1, 2, 3, 4>>) \o Tlv(0, <<9, 9, 9, 9>>),
          Tlv(1, <<1, 2>>) \o Tlv(0, <<1, 2, 3, 4>>),
          Tlv(0, <<1, 2, 3, 4>>) \o TlvShort(0, <<9, 9>>),
          Tlv(0, <<1, 2, 3, 4>>) \o <<0>>, <<0>>}

RemoteCore ==
    {Tlv(0, <<170, 187, 204, 221, 238, 255>>), Tlv(1, ExampleDashHex),
     Tlv(1, DashHex(48, 71, 45)), TlvShort(0, Rep(5, 8)), <<>>}

RemoteValues ==
    RemoteCore
    \cup {Tlv(1, DashHex(a, b, sep)) : a \in HexChars, b \in HexChars, sep \in {45, 58}}
    \cup {Tlv(0, Rep(6, b)) : b \in {0, 45, 255}}
    \cup {Tlv(t, Rep(n, 70)) : t \in {0, 1, 2}, n \in {5, 6, 7, 16, 17, 18}}
    \cup {TlvShort(t, Rep(n, 70)) : t \in {0, 1}, n \in {6, 16, 17}}
    \cup {Tlv(1, ExampleDashHex) \o Tlv(0, Rep(6, 9)),
          Tlv(2, <<1>>) \o Tlv(0, Rep(6, 9)),
          Tlv(0, Rep(6, 9)) \o Tlv(1, ExampleDashHex), <<1>>}

\* option 82 values carrying a Circuit ID and a Remote ID suboption, in either
\* order, alone, repeated, or followed by a broken suboption
Option82Pairs ==
    (CircuitValues \X RemoteCore) \cup (CircuitCore \X RemoteValues)

StructuredBuffers ==
    {Tlv(1, cr[1]) \o Tlv(2, cr[2]) : cr \in Option82Pairs}
    \cup {Tlv(2, cr[2]) \o Tlv(1, cr[1]) : cr \in Option82Pairs}
    \cup {Tlv(1, c) : c \in CircuitValues}
    \cup {Tlv(2, r) : r \in RemoteValues}
    \cup {Tlv(1, c) \o Tlv(9, <<5>>) \o Tlv(1, d) : c \in CircuitCore, d \in CircuitCore}
    \cup {Tlv(2, r) \o Tlv(1, <<>>) \o Tlv(2, q) : r \in RemoteCore, q \in RemoteCore}
    \cup {Tlv(1, cr[1]) \o TlvShort(2, cr[2]) : cr \in CircuitCore \X RemoteCore}
    \cup {Tlv(2, cr[2]) \o Tlv(1, cr[1]) \o <<7>> : cr \in CircuitCore \X RemoteCore}

Inputs == ShortBuffers \cup StructuredBuffers

---------------------------------------------------------------------------
(* The RFC3046 object: construction, then any calls of its members         *)

NotCalled == <<"NotCalled", <<>> >>

Init ==
    /\ pc = "new"
    /\ data \in Inputs
    /\ raw = Unset
    /\ suboptions = Unset
    /\ agent_circuit_id = Unset
    /\ agent_remote_id = Unset
    /\ op = "none"
    /\ ret = RetNone
    /\ first = [m \in {"AgentRemoteId", "AgentCircuitId"} |-> NotCalled]
    /\ rpc = "idle"
    /\ routes = <<>>
    /\ _routes = <<>>
    /\ result = <<>>

\* RFC3046(data) returns
Construct ==
    /\ pc = "new"
    /\ _parseSuboption(data).ok
    /\ raw' = data
    /\ suboptions' = _parseSuboption(data).dict
    /\ agent_circuit_id' = CachedAttrs(suboptions', 1)
    /\ agent_remote_id' = CachedAttrs(suboptions', 2)
    /\ pc' = "ready"
    /\ op' = "__init__"
    /\ ret' = RetNone
    /\ UNCHANGED <<data, first, routevars>>

\* RFC3046(data) raises from line 26: lines 20 and 23 have run, no object is returned
ConstructRaises ==
    /\ pc = "new"
    /\ ~ _parseSuboption(data).ok
    /\ raw' = data
    /\ suboptions' = _parseSuboption(data).dict
    /\ agent_circuit_id' = <<>>
    /\ agent_remote_id' = <<>>
    /\ pc' = "failed"
    /\ op' = "__init__"
    /\ ret' = RetValueError
    /\ UNCHANGED <<data, first, routevars>>

CallAgentRemoteId ==
    /\ pc = "ready"
    /\ op' = "AgentRemoteId"
    /\ ret' = AgentRemoteId(agent_remote_id)
    /\ agent_remote_id' = AgentRemoteIdKeeps(agent_remote_id)
    /\ first' = IF first[op'] = NotCalled THEN [first EXCEPT ![op'] = ret'] ELSE first
    /\ UNCHANGED <<pc, data, raw, suboptions, agent_circuit_id, routevars>>

CallAgentCircuitId ==
    /\ pc = "ready"
    /\ op' = "AgentCircuitId"
    /\ ret' = AgentCircuitId(agent_circuit_id)
    /\ first' = IF first[op'] = NotCalled THEN [first EXCEPT ![op'] = ret'] ELSE first
    /\ UNCHANGED <<pc, data, raw, suboptions, agent_circuit_id, agent_remote_id, routevars>>

\* __nonzero__
CallNonzero ==
    /\ pc = "ready"
    /\ op' = "__nonzero__"
    /\ ret' = RetValue(<<Len(raw) > 0>>)
    /\ UNCHANGED <<pc, data, raw, suboptions, agent_circuit_id, agent_remote_id, first,
                   routevars>>

\* __len__
CallLen ==
    /\ pc = "ready"
    /\ op' = "__len__"
    /\ ret' = RetValue(<<Len(raw)>>)
    /\ UNCHANGED <<pc, data, raw, suboptions, agent_circuit_id, agent_remote_id, first,
                   routevars>>

Next ==
    \/ Construct
    \/ ConstructRaises
    \/ CallAgentRemoteId
    \/ CallAgentCircuitId
    \/ CallNonzero
    \/ CallLen

Spec == Init /\ [][Next]_vars

---------------------------------------------------------------------------
(* RFC3442: subnets and gateways                                           *)
(* A subnet string "a.b.c.d/p" is the pair <<(a, b, c, d), p>>, a gateway  *)
(* string "a.b.c.d" the tuple (a, b, c, d).                                *)

Pow2(n) == 2 ^ n

\* the 32-bit value of four octets, as its high and low 16-bit halves
AddrValue(words) == <<words[1] * 256 + words[2], words[3] * 256 + words[4]>>

\* IPAddress(value).words
AddrWords(value) ==
    <<value[1] \div 256, value[1] % 256, value[2] \div 256, value[2] % 256>>

\* a 16-bit half with all but its leading `bits` bits cleared
Masked16(half, bits) == half - (half % Pow2(16 - bits))

\* IPNetwork(subnet).network: the address and-ed with the netmask of the prefix
NetworkOf(subnet) ==
    LET value     == AddrValue(subnet[1])
        prefixlen == subnet[2]
    IN  IF prefixlen <= 16
        THEN <<Masked16(value[1], prefixlen), 0>>
        ELSE <<value[1], Masked16(value[2], prefixlen - 16)>>

\* IPNetwork(subnet).prefixlen
PrefixlenOf(subnet) == subnet[2]

\* line 149-150: the tuple appended for one (subnet, gw) pair
RouteTuple(subnet, gw) ==
    <<NetworkOf(subnet), PrefixlenOf(subnet), AddrWords(NetworkOf(subnet)), gw>>

\* RFC3442.__init__: self._routes, one tuple per pair in iteration order
RFC3442_initPrepends(rs) ==
    [i \in 1..Len(rs) |-> RouteTuple(rs[Len(rs) + 1 - i][1], rs[Len(rs) + 1 - i][2])]

RFC3442_init(rs) ==
    [i \in 1..Len(rs) |-> RouteTuple(rs[i][1], rs[i][2])]

\* the test of line 158, i in 0..3
OctetIsEmittedWholeOctetsOnly(prefixlen, i) == prefixlen \div 8 > i

OctetIsEmitted(prefixlen, i) == prefixlen > i * 8

\* lines 156-161: what one route appends to result
RouteBytes(route) ==
    LET emitted == {i \in 0..3 : OctetIsEmitted(route[2], i)}
        octets  == [k \in 1..Cardinality(emitted) |->
                       route[3][1 + CHOOSE i \in emitted :
                                       Cardinality({j \in emitted : j < i}) = k - 1]]
    IN  <<route[2]>> \o octets \o route[4]

RECURSIVE ListClasslessRoutes(_)
ListClasslessRoutes(rts) ==
    IF rts = <<>> THEN <<>>
    ELSE RouteBytes(Head(rts)) \o ListClasslessRoutes(Tail(rts))

---------------------------------------------------------------------------
(* The route sets handed to RFC3442                                        *)

RouteAddrs == {<<0, 0, 0, 0>>, <<10, 0, 0, 0>>, <<192, 168, 1, 129>>,
               <<255, 255, 255, 255>>, <<172, 16, 85, 1>>}

Gateways == {<<10, 0, 0, 1>>, <<192, 168, 1, 254>>}

SingleRoutes == {<< <<a, p>>, g >> : a \in RouteAddrs, p \in 0..32, g \in Gateways}

SeveralRoutes ==
    {<< <<a, p>>, <<10, 0, 0, 1>> >> : a \in RouteAddrs, p \in {0, 8, 25}}
    \cup {<< <<a, 17>>, <<192, 168, 1, 254>> >> : a \in RouteAddrs}

RouteInputs ==
    {<<>>} \cup {<<r>> : r \in SingleRoutes}
    \cup UNION {[1..n -> SeveralRoutes] : n \in 2..MaxRoutes}

---------------------------------------------------------------------------
(* The RFC3442 object: construction, then ListClasslessRoutes              *)

InitRoutes ==
    /\ rpc = "new"
    /\ routes \in RouteInputs
    /\ _routes = <<>>
    /\ result = <<>>
    /\ pc = "idle"
    /\ data = <<>>
    /\ raw = Unset
    /\ suboptions = Unset
    /\ agent_circuit_id = Unset
    /\ agent_remote_id = Unset
    /\ op = "none"
    /\ ret = RetNone
    /\ first = [m \in {"AgentRemoteId", "AgentCircuitId"} |-> NotCalled]

\* RFC3442(routes)
ConstructRoutes ==
    /\ rpc = "new"
    /\ _routes' = RFC3442_init(routes)
    /\ rpc' = "built"
    /\ UNCHANGED <<routes, result, optvars>>

CallListClasslessRoutes ==
    /\ rpc \in {"built", "listed"}
    /\ result' = ListClasslessRoutes(_routes)
    /\ rpc' = "listed"
    /\ UNCHANGED <<routes, _routes, optvars>>

NextRoutes ==
    \/ ConstructRoutes
    \/ CallListClasslessRoutes

SpecRoutes == InitRoutes /\ [][NextRoutes]_vars

---------------------------------------------------------------------------
(* The wire format, stated on the raw buffer by offsets (0-based), without *)
(* the decoders: what the properties below compare the decoders with.      *)

\* the offsets a front-to-back walk of well-formed TLVs reaches
Reached(d) ==
    LET n == Len(d)
        R[k \in 0..n] ==
            k = 0 \/ \E j \in 0..(k - 1) :
                        /\ j + 2 <= n
                        /\ j + 2 + d[j + 2] = k
                        /\ R[j]
    IN  {k \in 0..n : R[k]}

\* the offsets where the walk reads a suboption header
HeadersAt(d) == {k \in Reached(d) : k = 0 \/ k < Len(d)}

\* the header at offset k is cut short, or declares more bytes than remain
BrokenAt(d, k) == Len(d) - k < 2 \/ d[k + 2] > Len(d) - k - 2

Malformed(d) == \E k \in HeadersAt(d) : BrokenAt(d, k)

WireId(d, k) == d[k + 1]

WireValue(d, k) == SubSeq(d, k + 3, k + 2 + d[k + 2])

WireIds(d) == {WireId(d, k) : k \in HeadersAt(d)}

\* the offset of the last suboption with this id
LastAt(d, id) ==
    CHOOSE k \in HeadersAt(d) :
        /\ WireId(d, k) = id
        /\ \A j \in HeadersAt(d) : WireId(d, j) = id => j <= k

\* the offsets of the suboptions whose id occurs again later in the buffer
Overwritten(d) ==
    {k \in HeadersAt(d) : \E j \in HeadersAt(d) : j > k /\ WireId(d, j) = WireId(d, k)}

\* 2 + len(value) summed over the mapping's entries for the ids in S
RECURSIVE MappingBytes(_, _)
MappingBytes(m, S) ==
    IF S = {} THEN 0
    ELSE LET id == CHOOSE y \in S : TRUE
         IN  2 + Len(m[id]) + MappingBytes(m, S \ {id})

\* 2 + declared length summed over the suboptions at the offsets in S
RECURSIVE WireBytes(_, _)
WireBytes(d, S) ==
    IF S = {} THEN 0
    ELSE LET k == CHOOSE y \in S : TRUE
         IN  2 + d[k + 2] + WireBytes(d, S \ {k})

\* the offsets where the lenient attribute walk reads an attribute header
AttrsAt(v) ==
    LET n == Len(v)
        R[k \in 0..n] ==
            k = 0 \/ \E j \in 0..(k - 1) :
                        /\ j + 2 <= n
                        /\ j + 2 + v[j + 2] = k
                        /\ k < n
                        /\ R[j]
    IN  {k \in 0..n : R[k] /\ n - k >= 2}

\* the attribute at offset k: its type and the bytes that are there
WireAttr(v, k) == <<v[k + 1], SubSeq(v, k + 3, Min(k + 2 + v[k + 2], Len(v)))>>

\* the attributes in wire order
RECURSIVE InOrder(_, _)
InOrder(v, S) ==
    IF S = {} THEN <<>>
    ELSE LET k == CHOOSE x \in S : \A y \in S : x <= y
         IN  <<WireAttr(v, k)>> \o InOrder(v, S \ {k})

WireAttrs(v) == InOrder(v, AttrsAt(v))

\* the value of the last suboption with this id carries a first attribute
HasFirstAttr(d, id) == id \in WireIds(d) /\ Len(WireValue(d, LastAt(d, id))) >= 2

FirstAttr(d, id) == WireAttr(WireValue(d, LastAt(d, id)), 0)

---------------------------------------------------------------------------
(* C1: the outer decode fails whenever the buffer is shorter than 2 bytes  *)
(* or a suboption reached by the front-to-back walk declares more bytes    *)
(* than remain after its header; nothing is returned then.                 *)
C1_MalformedRaises ==
    (pc # "new" /\ Malformed(data)) =>
        (pc = "failed" /\ ret = RetValueError /\ suboptions = Unset)

\* a later suboption, its header complete, declares more than remains
C1_Witness ==
    /\ pc = "failed"
    /\ \E k \in HeadersAt(data) :
          k > 0 /\ Len(data) - k >= 2 /\ data[k + 2] > Len(data) - k - 2

---------------------------------------------------------------------------
(* C2 as stated: for a well-formed buffer of at least 2 bytes the decode   *)
(* does not raise and 2 + len(value) summed over the returned mapping is   *)
(* len(data).                                                              *)
C2_SumOverMappingIsLen ==
    (pc # "new" /\ Len(data) >= 2 /\ ~ Malformed(data)) =>
        (pc = "ready" /\ MappingBytes(suboptions, DOMAIN suboptions) = Len(data))

(* C2 amended: for a well-formed buffer of at least 2 bytes the decode     *)
(* does not raise, and 2 + len(value) summed over the returned mapping is  *)
(* len(data) less the bytes of the suboptions whose id occurs again later: *)
(* it is len(data) exactly when no id occurs twice.                        *)
C2_SumOverMappingLessOverwritten ==
    (pc # "new" /\ Len(data) >= 2 /\ ~ Malformed(data)) =>
        /\ pc = "ready"
        /\ MappingBytes(suboptions, DOMAIN suboptions)
              = Len(data) - WireBytes(data, Overwritten(data))
        /\ (MappingBytes(suboptions, DOMAIN suboptions) = Len(data))
              <=> (Overwritten(data) = {})

\* three suboptions decoded, one of them overwritten
C2_Witness ==
    /\ pc = "ready"
    /\ Cardinality(HeadersAt(data)) = 3
    /\ Cardinality(Overwritten(data)) = 1
    /\ Cardinality(DOMAIN suboptions) = 2

---------------------------------------------------------------------------
(* C3: the returned mapping has as keys exactly the ids that occur in the  *)
(* buffer, each mapped to the value of its last occurrence, and the cached *)
(* attribute lists are decoded from the last suboption 1 and 2.            *)
C3_LastOccurrenceWins ==
    pc = "ready" =>
        /\ DOMAIN suboptions = WireIds(raw)
        /\ \A id \in WireIds(raw) : suboptions[id] = WireValue(raw, LastAt(raw, id))
        /\ agent_circuit_id =
              IF 1 \in WireIds(raw)
              THEN _decodeSuboptionAttr(WireValue(raw, LastAt(raw, 1))) ELSE <<>>
        /\ agent_remote_id =
              IF 2 \in WireIds(raw)
              THEN _decodeSuboptionAttr(WireValue(raw, LastAt(raw, 2))) ELSE <<>>

\* suboption 1 occurs twice with different values, and both decode to attributes
C3_Witness ==
    /\ pc = "ready"
    /\ \E j \in HeadersAt(raw), k \in HeadersAt(raw) :
          /\ j < k
          /\ WireId(raw, j) = 1
          /\ WireId(raw, k) = 1
          /\ WireValue(raw, j) # WireValue(raw, k)
          /\ Len(WireValue(raw, j)) >= 2
    /\ Len(agent_circuit_id) > 0

---------------------------------------------------------------------------
(* C4: the inner attribute decode gives no attribute for fewer than 2      *)
(* bytes, the attributes in wire order otherwise, and an attribute whose   *)
(* declared length exceeds what follows keeps the bytes that are there.    *)
C4_LenientAttributes ==
    pc = "ready" =>
        /\ 1 \in DOMAIN suboptions => agent_circuit_id = WireAttrs(suboptions[1])
        /\ 2 \in DOMAIN suboptions => agent_remote_id = WireAttrs(suboptions[2])
        /\ \A id \in DOMAIN suboptions :
              Len(suboptions[id]) < 2 => _decodeSuboptionAttr(suboptions[id]) = <<>>

\* two attributes, the second one cut short but not empty
C4_Witness ==
    /\ pc = "ready"
    /\ 1 \in DOMAIN suboptions
    /\ Len(agent_circuit_id) = 2
    /\ \E k \in AttrsAt(suboptions[1]) :
          /\ k > 0
          /\ suboptions[1][k + 2] > Len(suboptions[1]) - k - 2
          /\ Len(agent_circuit_id[2][2]) > 0

---------------------------------------------------------------------------
(* C5: whenever the first attribute of suboption 2 has type 1 and a        *)
(* 17-byte value, AgentRemoteId returns, without failing, the 6 bytes got  *)
(* by stripping the dashes and reading each pair of hex digits as a byte.  *)
C5_DashHexAlwaysSixBytes ==
    (op = "AgentRemoteId" /\ HasFirstAttr(raw, 2)
        /\ FirstAttr(raw, 2)[1] = 1 /\ Len(FirstAttr(raw, 2)[2]) = 17) =>
        LET chars == SelectSeq(FirstAttr(raw, 2)[2], LAMBDA i : i # 45)
        IN  /\ ret[1] = "value"
            /\ Len(ret[2]) = 6
            /\ \A k \in 1..6 :
                  /\ 2 * k <= Len(chars)
                  /\ HexDigit(chars[2 * k - 1]) >= 0
                  /\ HexDigit(chars[2 * k]) >= 0
                  /\ ret[2][k] = 16 * HexDigit(chars[2 * k - 1]) + HexDigit(chars[2 * k])

---------------------------------------------------------------------------
(* C6: AgentRemoteId returns the 6 value bytes when the first attribute of *)
(* the last suboption 2 has type 0 and a 6-byte value, and None when there *)
(* is no suboption 2, no attribute in it, or the first attribute is        *)
(* neither (0, 6 bytes) nor (1, 17 bytes): later attributes and suboption  *)
(* 1 have no part in it.                                                   *)
C6_RemoteIdPlainOrNone ==
    op = "AgentRemoteId" =>
        IF ~ HasFirstAttr(raw, 2) THEN ret = RetNone
        ELSE LET t == FirstAttr(raw, 2)[1]
                 v == FirstAttr(raw, 2)[2]
             IN  IF t = 0 /\ Len(v) = 6 THEN ret = RetValue(v)
                 ELSE IF t = 1 /\ Len(v) = 17 THEN TRUE
                 ELSE ret = RetNone

\* a 6-byte Remote ID is returned from a buffer that also carries a Circuit ID
\* and a second Remote ID attribute of another format
C6_Witness ==
    /\ op = "AgentRemoteId"
    /\ ret[1] = "value"
    /\ Len(ret[2]) = 6
    /\ Len(agent_remote_id) = 2
    /\ agent_remote_id[2][1] = 1
    /\ Len(agent_circuit_id) > 0

---------------------------------------------------------------------------
(* C7: AgentCircuitId returns (value[0]*256 + value[1], value[2],          *)
(* value[3]), the first within 0..65535, exactly when the first attribute  *)
(* of the last suboption 1 has type 0 and a 4-byte value, and None in      *)
(* every other case, a value cut short by the lenient decode included.     *)
C7_CircuitIdTriple ==
    op = "AgentCircuitId" =>
        IF HasFirstAttr(raw, 1)
              /\ FirstAttr(raw, 1)[1] = 0 /\ Len(FirstAttr(raw, 1)[2]) = 4
        THEN LET v == FirstAttr(raw, 1)[2]
             IN  /\ ret = RetValue(<<v[1] * 256 + v[2], v[3], v[4]>>)
                 /\ ret[2][1] \in 0..65535
        ELSE ret = RetNone

\* the largest vlan is returned
C7_Witness ==
    /\ op = "AgentCircuitId"
    /\ ret = RetValue(<<65535, 255, 255>>)

---------------------------------------------------------------------------
(* C10: once constructed, no call of a member changes the raw buffer, the  *)
(* mapping or the two cached attribute lists; an accessor gives what it    *)
(* gave when first called, and the size is the length of the raw buffer.   *)
C10_Immutable ==
    [][pc = "ready" =>
          /\ UNCHANGED <<raw, suboptions, agent_circuit_id, agent_remote_id>>
          /\ op' \in {"AgentRemoteId", "AgentCircuitId"} => ret' = first'[op']
          /\ op' = "__len__" => ret' = RetValue(<<Len(raw')>>)
          /\ op' = "__nonzero__" => ret' = RetValue(<<Len(raw') # 0>>)]_vars

\* the dash-hex branch has returned its six bytes, AgentCircuitId having been read too
C10_Witness ==
    /\ op = "AgentRemoteId"
    /\ first["AgentRemoteId"] = RetValue(<<170, 187, 204, 221, 238, 255>>)
    /\ agent_remote_id[1][1] = 1
    /\ first["AgentCircuitId"] # NotCalled

---------------------------------------------------------------------------
(* The RFC 3442 layout of one route, stated octet by octet                 *)

Max(a, b) == IF a > b THEN a ELSE b

\* how many bits of octet i (1..4) a prefix of length p covers
BitsKept(p, i) == Max(0, Min(8, p - 8 * (i - 1)))

\* octet o with all but its leading `bits` bits cleared
MaskedOctet(o, bits) == (o \div Pow2(8 - bits)) * Pow2(8 - bits)

\* ceil(p / 8)
SignificantOctets(p) == (p + 7) \div 8

WireRoute(r) ==
    LET p == r[1][2]
    IN  <<p>>
        \o [i \in 1..SignificantOctets(p) |-> MaskedOctet(r[1][1][i], BitsKept(p, i))]
        \o r[2]

RECURSIVE WireRoutes(_)
WireRoutes(rs) == IF rs = <<>> THEN <<>> ELSE WireRoute(Head(rs)) \o WireRoutes(Tail(rs))

\* the encoder run on a route set of its own
Encode(rs) == ListClasslessRoutes(RFC3442_init(rs))

RECURSIVE EncodedOneByOne(_)
EncodedOneByOne(rs) ==
    IF rs = <<>> THEN <<>> ELSE Encode(<<Head(rs)>>) \o EncodedOneByOne(Tail(rs))

Reverse(s) == [i \in 1..Len(s) |-> s[Len(s) + 1 - i]]

---------------------------------------------------------------------------
(* C8: each route is encoded as its prefix length p, the first ceil(p/8)   *)
(* octets of the network address with the host bits cleared, and the 4     *)
(* gateway octets: 1 + ceil(p/8) + 4 bytes, nothing between the routes.    *)
C8_RouteLayout ==
    rpc = "listed" =>
        /\ result = WireRoutes(routes)
        /\ Len(routes) = 1 =>
              Len(result) = 1 + SignificantOctets(routes[1][1][2]) + 4
        /\ routes = << << << <<10, 0, 0, 0>>, 8 >>, <<10, 0, 0, 1>> >> >> =>
              result = <<8, 10, 10, 0, 0, 1>>
        /\ routes = << << << <<0, 0, 0, 0>>, 0 >>, <<10, 0, 0, 1>> >> >> =>
              result = <<0, 10, 0, 0, 1>>

\* 192.168.1.129/25 via 10.0.0.1: four network octets, the last one masked
C8_Witness ==
    /\ rpc = "listed"
    /\ routes = << << << <<192, 168, 1, 129>>, 25 >>, <<10, 0, 0, 1>> >> >>
    /\ result = <<25, 192, 168, 1, 128, 10, 0, 0, 1>>

---------------------------------------------------------------------------
(* C9: the encoding of several routes is the concatenation of the          *)
(* encodings of each route alone, in the order the routes are handed over; *)
(* handing them over in the opposite order gives the same fragments in     *)
(* the opposite order.                                                     *)
C9_OrderPreserved ==
    (rpc # "new" /\ Len(routes) >= 2) =>
        /\ Len(_routes) = Len(routes)
        /\ \A i \in 1..Len(routes) : _routes[i] = RouteTuple(routes[i][1], routes[i][2])
        /\ rpc = "listed" =>
              /\ result = EncodedOneByOne(routes)
              /\ Encode(Reverse(routes)) = EncodedOneByOne(Reverse(routes))

\* two routes whose fragments differ, the longer prefix handed over last
C9_Witness ==
    /\ rpc = "listed"
    /\ Len(routes) = 2
    /\ routes[1][1][2] < routes[2][1][2]
    /\ Encode(<<routes[1]>>) # Encode(<<routes[2]>>)
    /\ result # Encode(Reverse(routes))

=============================================================================
